---- MODULE Spec2Model ----
(***************************************************************************)
(* viber00t (src/main.go): the layered image cache of a development-       *)
(* container launcher.  Configuration loading and merging, the config      *)
(* fingerprint, the per-environment base image, the per-project image with *)
(* its on-disk build-state file, and the container launch.                 *)
(*                                                                         *)
(* Strings are sequences of tokens: a token is one character ("a", ":")    *)
(* or a literal of the source that is never taken apart ("viber00t/",      *)
(* "claude", "false").  Concatenation, strings.Split and strings.Join work *)
(* on the tokens, so that formatting and parsing are computed, not         *)
(* assumed.  The container runtime (podman) and the file system are the    *)
(* environment: a set of image references, a set of containers, and the    *)
(* files the tool reads and writes.                                        *)
(***************************************************************************)
EXTENDS Integers, Sequences, FiniteSets, TLC

\* how many times the user edits or touches a Viber00t.toml in one behaviour
MaxEdits == 1
\* how many images the user removes by hand in one behaviour
MaxExternal == 1
\* tool instances that may exist; Init says which of them run
NumProcs == 2
\* the fingerprints that are compared are taken at the mtimes 1..MaxMtime
MaxMtime == 2
\* the command lines that are tried have at most MaxArgs words
MaxArgs == 2
MaxBasePackages == 2

Procs == 1..NumProcs
Dirs == {"d1", "d2"}

-----------------------------------------------------------------------------
(* Strings *)

RECURSIVE Flatten(_)
\* the bytes of a token string, as one token
Flatten(s) == IF s = <<>> THEN "" ELSE Head(s) \o Flatten(Tail(s))

RECURSIVE Concat(_)
\* h.Write of every element in turn: the elements' bytes, nothing between
Concat(ss) == IF ss = <<>> THEN <<>> ELSE Head(ss) \o Concat(Tail(ss))

RECURSIVE Join(_, _)
\* strings.Join(ss, sep)
Join(ss, sep) ==
    IF ss = <<>> THEN <<>>
    ELSE IF Len(ss) = 1 THEN Head(ss)
    ELSE Head(ss) \o sep \o Join(Tail(ss), sep)

RECURSIVE Split(_, _)
\* strings.Split(s, sep) for a one-token separator: always at least one part
Split(s, sep) ==
    IF \A i \in 1..Len(s) : s[i] # sep THEN <<s>>
    ELSE LET i == CHOOSE k \in 1..Len(s) :
                      s[k] = sep /\ \A j \in 1..(k - 1) : s[j] # sep
         IN <<SubSeq(s, 1, i - 1)>> \o Split(SubSeq(s, i + 1, Len(s)), sep)

\* strings.HasPrefix(s, prefix)
HasPrefix(s, prefix) ==
    Len(prefix) <= Len(s) /\ SubSeq(s, 1, Len(prefix)) = prefix

\* strings.Contains(s, sub)
Contains(s, sub) ==
    \E i \in 0..(Len(s) - Len(sub)) : SubSeq(s, i + 1, i + Len(sub)) = sub

\* fmt.Sprintf("%v", b) of a bool
FormatBool(b) == IF b THEN <<"true">> ELSE <<"false">>

\* fmt.Sprintf("%d", n)
FormatInt(n) == <<ToString(n)>>

-----------------------------------------------------------------------------
(* Names of the model's inputs *)

Colon == ":"
Slash == "/"
Claude == <<"claude">>
Python == <<"python">>
Rust == <<"rust">>
PkgA == <<"a">>
PkgB == <<"b">>
PkgAB == <<"a", "b">>
NameA == <<"a">>
NameAB == <<"a", "b">>
NameEmpty == <<>>
NameAColonB == <<"a", ":", "b">>
NameASlashB == <<"a", "/", "b">>

\* the zero value of the install block
EmptyBlock == [packages |-> <<>>, envs |-> <<>>]

\* a file that is not there
NoFile == [exists |-> FALSE, data |-> <<>>]
AFile(d) == [exists |-> TRUE, data |-> d]

-----------------------------------------------------------------------------
(* Configuration *)

\* defaultGlobalConfig, decoded: what initGlobalConfig writes when the file
\* is missing
DefaultGlobalFile ==
    [defaultAgent |-> Claude, defaultPackages |-> <<>>, defaultEnvs |-> <<>>]

\* loadGlobalConfig: the decoded file with its defaults filled in
loadGlobalConfig(file) ==
    LET f == IF file.exists THEN file.data ELSE DefaultGlobalFile
    IN [f EXCEPT !.defaultAgent = IF @ = <<>> THEN Claude ELSE @]

\* initGlobalConfig: the global file after a call of loadGlobalConfig
initGlobalConfig(file) == IF file.exists THEN file ELSE AFile(DefaultGlobalFile)

\* loadConfig with the global default environments put after the project's
loadConfig_EnvsAppended(c, g) ==
    [c EXCEPT
        !.agent = IF @ = <<>> THEN g.defaultAgent ELSE @,
        !.install =
            IF Len(@) > 0
            THEN [@ EXCEPT ![1] =
                    [packages |-> IF Len(g.defaultPackages) > 0
                                  THEN g.defaultPackages \o @.packages
                                  ELSE @.packages,
                     envs |-> @.envs \o g.defaultEnvs]]
            ELSE @]

\* loadConfig, after both files were read and decoded: the project's agent
\* defaults to the global one, and the global default packages and
\* environments go in front of the first install block's, if there is one
loadConfig(c, g) ==
    [c EXCEPT
        !.agent = IF @ = <<>> THEN g.defaultAgent ELSE @,
        !.install =
            IF Len(@) > 0
            THEN [@ EXCEPT ![1] =
                    [packages |-> IF Len(g.defaultPackages) > 0
                                  THEN g.defaultPackages \o @.packages
                                  ELSE @.packages,
                     envs |-> IF Len(g.defaultEnvs) > 0
                              THEN g.defaultEnvs \o @.envs
                              ELSE @.envs]]
            ELSE @]

\* os.Stat("Viber00t.toml"): the mtime, or 0 for an error
NoStat == 0

\* the bytes getConfigHash writes into the hash, in order
HashInput(config, st) ==
    config.name \o config.agent \o FormatBool(config.privileged)
    \o (IF Len(config.install) > 0
        THEN Concat(config.install[1].packages) \o Concat(config.install[1].envs)
        ELSE <<>>)
    \o (IF st # NoStat THEN FormatInt(st) ELSE <<>>)

\* hex.EncodeToString(h.Sum(nil))[:12]: one token per byte input, and
\* different tokens for different inputs (SHA-256 taken as collision-free)
Digest(bytes) == <<Flatten(bytes)>>

getConfigHash(config, st) == Digest(HashInput(config, st))

\* fmt.Sprintf("viber00t/%s:%s", name, hash)
ImageRef(name, hash) == <<"viber00t/">> \o name \o <<Colon>> \o hash

getProjectImageName(config, st) == ImageRef(config.name, getConfigHash(config, st))

\* fmt.Sprintf("viber00t:%s-base", env)
BaseImageName(env) == <<"viber00t", Colon>> \o env \o <<"-base">>

\* the environment whose base image the project image is built from
BaseEnv(config) ==
    IF Len(config.install) > 0 /\ Len(config.install[1].envs) > 0
    THEN config.install[1].envs[1]
    ELSE <<"base">>

\* generateDockerfile: the FROM line and the install list
projectPackages(config, g) ==
    (IF Len(g.defaultPackages) > 0 THEN g.defaultPackages ELSE <<>>)
    \o (IF Len(config.install) > 0 /\ Len(config.install[1].packages) > 0
        THEN config.install[1].packages
        ELSE <<>>)

generateDockerfile(config, g, baseImage) ==
    <<"FROM ">> \o baseImage \o <<"\n\nENV DEBIAN_FRONTEND=noninteractive\n">>
    \o (IF Len(projectPackages(config, g)) > 0
        THEN <<"\n# Install project-specific packages\nRUN apt-get update && \\\n    apt-get install -y --no-install-recommends \\\n    ">>
             \o Join(projectPackages(config, g), <<" \\\n    ">>)
             \o <<" && \\\n    rm -rf /var/lib/apt/lists/*\n">>
        ELSE <<>>)
    \o <<"\n# Project environment setup\nWORKDIR /c0de/project\nCMD [\"claude\"]\n">>

\* envTemplates: the packages of an environment, none for a name that is
\* not in the map
envTemplates(env) ==
    CASE env = <<"python">> ->
           << <<"python3">>, <<"python3-dev">>, <<"python3-pip">>,
              <<"python3-venv">>, <<"pipx">>, <<"poetry">>, <<"pyenv">>,
              <<"python3-setuptools">> >>
      [] env = <<"rust">> ->
           << <<"pkg-config">>, <<"libssl-dev">>, <<"build-essential">> >>
      [] env = <<"node">> -> << <<"nodejs">>, <<"npm">>, <<"yarn">>, <<"n">> >>
      [] env = <<"go">> -> << <<"golang">>, <<"gopls">> >>
      [] env = <<"ruby">> ->
           << <<"ruby-full">>, <<"ruby-dev">>, <<"bundler">>, <<"rbenv">> >>
      [] env = <<"java">> ->
           << <<"openjdk-17-jdk">>, <<"maven">>, <<"gradle">> >>
      [] env = <<"cpp">> ->
           << <<"clang">>, <<"clang-tools">>, <<"clang-format">>, <<"cmake">>,
              <<"ninja-build">>, <<"ccache">>, <<"gdb">>, <<"valgrind">> >>
      [] env = <<"php">> ->
           << <<"php">>, <<"php-cli">>, <<"php-mbstring">>, <<"php-xml">>,
              <<"composer">> >>
      [] env = <<"dotnet">> -> << <<"dotnet-sdk-8.0">>, <<"nuget">> >>
      [] OTHER -> <<>>

RECURSIVE ExpandEnvs(_)
\* the templates of the environments, one after the other
ExpandEnvs(envs) ==
    IF envs = <<>> THEN <<>>
    ELSE envTemplates(Head(envs)) \o ExpandEnvs(Tail(envs))

\* runContainer, "Create package install script if needed": allPackages,
\* what VIBER00T_INSTALL lists
allPackages(config) ==
    IF Len(config.install) > 0
    THEN config.install[1].packages \o ExpandEnvs(config.install[1].envs)
    ELSE <<>>

-----------------------------------------------------------------------------
(* The build-state file *)

\* what buildProjectImage stores: "imagename:hash"
StateData(name, hash) == ImageRef(name, hash)

\* ParseState taking the hash from the wrong part
ParseState_FirstPart(file) ==
    LET parts == Split(file.data, Colon)
    IN IF file.exists /\ Len(parts) = 2
       THEN [ok |-> TRUE, repo |-> parts[1], hash |-> parts[1]]
       ELSE [ok |-> FALSE, repo |-> <<>>, hash |-> <<>>]

\* ParseState that takes any content with a ":" in it for a record
ParseState_AtLeastTwoParts(file) ==
    LET parts == Split(file.data, Colon)
    IN IF file.exists /\ Len(parts) >= 2
       THEN [ok |-> TRUE, repo |-> parts[1], hash |-> parts[2]]
       ELSE [ok |-> FALSE, repo |-> <<>>, hash |-> <<>>]

\* what buildProjectImage makes of the state file: a record when the file
\* was read and splits into exactly two parts at ":"
ParseState(file) ==
    LET parts == Split(file.data, Colon)
    IN IF file.exists /\ Len(parts) = 2
       THEN [ok |-> TRUE, repo |-> parts[1], hash |-> parts[2]]
       ELSE [ok |-> FALSE, repo |-> <<>>, hash |-> <<>>]

\* parts[0] + ":" + oldHash
OldImage(rec) == rec.repo \o <<Colon>> \o rec.hash

-----------------------------------------------------------------------------
(* State *)

VARIABLES
    procs,       \* the tool instances that run
    commands,    \* the commands the user gives them
    cfgFiles,    \* per directory: Viber00t.toml, decoded, and its mtime
    globalFile,  \* ~/.config/viber00t/config.toml, decoded
    stateFiles,  \* per project name: <state dir>/<name>.state
    images,      \* the image references the runtime holds
    containers,  \* the containers the runtime holds: name and image
    inst,        \* per instance: where it is, and its local variables
    lastRun,     \* per directory: the image of the last invocation that
                 \* succeeded, while neither the config (since it was
                 \* loaded) nor the images were touched by the user
    edits,       \* edits of a Viber00t.toml so far
    externals,   \* images removed by hand so far
    hIn,         \* the two inputs of the fingerprint comparison
    hOut         \* what was computed from them

cacheVars ==
    <<procs, commands, cfgFiles, globalFile, stateFiles, images, containers, inst,
      lastRun, edits, externals>>
hashVars == <<hIn, hOut>>
vars == <<cacheVars, hashVars>>

ProjectNames == {NameA, NameAB, NameEmpty, NameAColonB, NameASlashB}

\* the install sections a Viber00t.toml of the cache specification may
\* hold: it starts with the first
FirstInstall == <<[packages |-> <<PkgA>>, envs |-> <<>>]>>
PythonInstall == <<[packages |-> <<PkgA>>, envs |-> <<Python>>]>>
Installs == {FirstInstall, PythonInstall}

\* a global file that sets a default package
GlobalWithPackage ==
    AFile([defaultAgent |-> <<>>, defaultPackages |-> <<PkgB>>,
           defaultEnvs |-> <<>>])

\* how a behaviour of the cache specification starts: the command the user
\* gives, the project's name, and the global file (none before the first use)
Scenarios ==
    { [cmds |-> {"run"}, name |-> NameA, global |-> NoFile],
      [cmds |-> {"run"}, name |-> NameA, global |-> GlobalWithPackage],
      [cmds |-> {"shell"}, name |-> NameA, global |-> NoFile],
      [cmds |-> {"run"}, name |-> NameAColonB, global |-> NoFile],
      [cmds |-> {"run"}, name |-> NameASlashB, global |-> NoFile] }

ZeroConfig ==
    [name |-> <<>>, agent |-> <<>>, privileged |-> FALSE, install |-> <<>>]

NoCfgFile == [exists |-> FALSE, mtime |-> NoStat, data |-> ZeroConfig]

\* an instance that has not started
Idle ==
    [pc |-> "idle", cmd |-> "run", dir |-> "d1", config |-> ZeroConfig,
     globalConfig |-> DefaultGlobalFile, imageName |-> <<>>,
     currentHash |-> <<>>, needsBuild |-> TRUE, oldImage |-> <<>>,
     baseImage |-> <<>>, baseBuilds |-> 0, projBuilds |-> 0,
     oldRemovals |-> 0, launchImage |-> <<>>, failure |-> "",
     rec0 |-> NoFile, cfg0 |-> NoCfgFile]

NoRun == [ok |-> FALSE, image |-> <<>>]

hashIdle == hIn = <<>> /\ hOut = <<>>

Init ==
    /\ procs = {1}
    /\ \E sc \in Scenarios :
         /\ commands = sc.cmds
         /\ cfgFiles =
              [d \in Dirs |->
                  IF d = "d1"
                  THEN [exists |-> TRUE, mtime |-> 1,
                        data |-> [name |-> sc.name, agent |-> <<>>,
                                  privileged |-> FALSE,
                                  install |-> FirstInstall]]
                  ELSE NoCfgFile]
         /\ globalFile = sc.global
    /\ stateFiles = [n \in ProjectNames |-> NoFile]
    /\ images = {}
    /\ containers = {}
    /\ inst = [p \in Procs |-> Idle]
    /\ lastRun = [d \in Dirs |-> NoRun]
    /\ edits = 0
    /\ externals = 0
    /\ hashIdle

-----------------------------------------------------------------------------
(* The runtime and the file system *)

\* os.Stat("Viber00t.toml") in directory d
Stat(d) == IF cfgFiles[d].exists THEN cfgFiles[d].mtime ELSE NoStat

\* a reference podman takes: one name and one tag, so one ":", and a name
\* that does not end at a "/"
ValidReference(ref) ==
    LET parts == Split(ref, Colon)
    IN /\ Len(parts) = 2
       /\ parts[1] # <<>> /\ parts[2] # <<>>
       /\ parts[1][Len(parts[1])] \notin {"viber00t/", Slash}

\* ioutil.WriteFile(<state dir>/<name>.state): os.MkdirAll made the state
\* directory and no directory under it, which a "/" in the name asks for
StatePathUsable(name) == \A i \in 1..Len(name) : name[i] # Slash

\* podman images -q <ref>: some output
ImagePresent(imgs, ref) == ref \in imgs

\* podman rmi <ref>, without -f: refused while a container uses the image
RmiAllowed(imgs, conts, ref) ==
    ref \in imgs /\ \A c \in conts : c.image # ref

\* the images after podman rmi <ref>, when the runtime does it (ok)
Rmi(imgs, conts, ref, ok) ==
    IF ok /\ RmiAllowed(imgs, conts, ref) THEN imgs \ {ref} ELSE imgs

\* the images and the containers after podman rmi -f <ref>
RmiForce(imgs, ref, ok) == IF ok THEN imgs \ {ref} ELSE imgs
RmiForceContainers(imgs, conts, ref, ok) ==
    IF ok /\ ref \in imgs THEN {c \in conts : c.image # ref} ELSE conts

\* "viber00t-<base name of cwd>", and "viber00t-shell-..." for the shell
ContainerName(cmd, d) ==
    IF cmd = "shell" THEN <<"viber00t-shell-", d>> ELSE <<"viber00t-", d>>

-----------------------------------------------------------------------------
(* A run or shell invocation, step by step.  Between two steps the user    *)
(* may edit the configuration or remove an image.                          *)

\* main, then runContainer or runShell up to loadConfig: the global file is
\* created when missing, and without a Viber00t.toml the invocation ends
Start(p, d, cmd) ==
    /\ p \in procs
    /\ cmd \in commands
    /\ inst[p].pc = "idle"
    /\ globalFile' = initGlobalConfig(globalFile)
    /\ inst' = [inst EXCEPT ![p] =
          IF cfgFiles[d].exists
          THEN [Idle EXCEPT
                  !.pc = "loaded", !.cmd = cmd, !.dir = d,
                  !.cfg0 = cfgFiles[d],
                  !.config = loadConfig(cfgFiles[d].data,
                                        loadGlobalConfig(globalFile))]
          ELSE [Idle EXCEPT
                  !.pc = "fatal", !.cmd = cmd, !.dir = d,
                  !.failure = "config"]]
    /\ UNCHANGED <<procs, commands, cfgFiles, stateFiles, images, containers, lastRun,
                   edits, externals, hashVars>>

\* NeedsBuild that asks only whether there is a record
NeedsBuild_RecordOnly(rec, currentHash, present) == ~rec.ok

\* NeedsBuild without the look at the runtime
NeedsBuild_HashOnly(rec, currentHash, present) ==
    ~(rec.ok /\ rec.hash = currentHash)

\* needsBuild after the state file was looked at: false only for a record
\* with the current hash whose image the runtime still lists
NeedsBuild(rec, currentHash, present) ==
    ~(rec.ok /\ rec.hash = currentHash /\ present)

\* whether the record sends buildProjectImage down the "config changed" path
ConfigChanged(rec, currentHash) == rec.ok /\ rec.hash # currentHash

\* where buildProjectImage stops when a failed removal of the old image is
\* taken for an error
AfterDecision_RemovalChecked(needsBuild, changed, removed) ==
    IF changed /\ ~removed THEN "fatal"
    ELSE IF needsBuild THEN "base" ELSE "ensured"

\* where buildProjectImage goes on after the look at the state file: the
\* error of exec.Command("podman", "rmi", oldImage).Run() is dropped
AfterDecision(needsBuild, changed, removed) ==
    IF needsBuild THEN "base" ELSE "ensured"

\* buildProjectImage up to "if !needsBuild": both names are computed, the
\* state file is read, and either the image is looked up (same hash) or the
\* old image is removed, best effort (other hash)
Decide(p) ==
    LET s == inst[p]
        st == Stat(s.dir)
        imageName == getProjectImageName(s.config, st)
        currentHash == getConfigHash(s.config, st)
        file == stateFiles[s.config.name]
        rec == ParseState(file)
        present == ImagePresent(images, imageName)
        needsBuild == NeedsBuild(rec, currentHash, present)
        changed == ConfigChanged(rec, currentHash)
    IN /\ s.pc = "loaded"
       /\ \E ok \in BOOLEAN :
            /\ images' = IF changed
                         THEN Rmi(images, containers, OldImage(rec), ok)
                         ELSE images
            /\ inst' = [inst EXCEPT ![p] =
                  [s EXCEPT
                     !.pc = AfterDecision(needsBuild, changed,
                               ok /\ RmiAllowed(images, containers,
                                                OldImage(rec))),
                     !.imageName = imageName,
                     !.currentHash = currentHash,
                     !.globalConfig = loadGlobalConfig(globalFile),
                     !.needsBuild = needsBuild,
                     !.oldImage = IF changed THEN OldImage(rec) ELSE <<>>,
                     !.oldRemovals = IF changed THEN 1 ELSE 0,
                     !.rec0 = file]]
       /\ globalFile' = initGlobalConfig(globalFile)
       /\ UNCHANGED <<procs, commands, cfgFiles, stateFiles, containers, lastRun, edits,
                      externals, hashVars>>

\* what a build can come to: the build directory or Dockerfile cannot be
\* written ("fs"), podman build fails ("build"), or it succeeds ("ok")
BuildOutcomes == {"fs", "build", "ok"}

\* buildOrGetBaseImage for the primary environment: an image that is there
\* is taken as it is, a missing one is built
EnsureBase(p) ==
    LET s == inst[p]
        baseImageName == BaseImageName(BaseEnv(s.config))
    IN /\ s.pc = "base"
       /\ \E out \in BuildOutcomes :
            IF ImagePresent(images, baseImageName)
            THEN /\ inst' = [inst EXCEPT ![p] =
                       [s EXCEPT !.pc = "build", !.baseImage = baseImageName]]
                 /\ images' = images
            ELSE /\ inst' = [inst EXCEPT ![p] =
                       [s EXCEPT
                          !.pc = IF out = "ok" THEN "build" ELSE "fatal",
                          !.failure = IF out = "ok" THEN "" ELSE "base",
                          !.baseImage = IF out = "ok" THEN baseImageName ELSE <<>>,
                          !.baseBuilds = IF out = "fs" THEN 0 ELSE 1]]
                 /\ images' = IF out = "ok"
                              THEN images \cup {baseImageName}
                              ELSE images
       /\ UNCHANGED <<procs, commands, cfgFiles, globalFile, stateFiles, containers,
                      lastRun, edits, externals, hashVars>>

\* the rest of buildProjectImage after the image was built: the state
\* directory cannot be made ("statedir", an error), the state file cannot
\* be opened ("nowrite", not looked at), it is opened, which empties it, and
\* the write fails ("truncated", not looked at), or it is written ("ok")
StoreOutcomes == {"statedir", "nowrite", "truncated", "ok"}

\* whether buildProjectImage returns an error
BuildFails(out, store) == out # "ok" \/ store = "statedir"

\* StateWritten with the write moved in front of the build's error check
StateWritten_BeforeCheck(out, store) == store = "ok"

\* whether the state file is written
StateWritten(out, store) == out = "ok" /\ store = "ok"

\* whether the state file is left empty
StateTruncated(out, store) == out = "ok" /\ store = "truncated"

\* buildProjectImage from "Clean up any existing containers" on.  The
\* podman ps line passes "|", "xargs", ... to podman as arguments, runs no
\* pipe and removes nothing; rmi -f of the new name is best effort
BuildProject(p) ==
    LET s == inst[p]
    IN /\ s.pc = "build"
       /\ \E rmiOk \in BOOLEAN, out \in BuildOutcomes, store \in StoreOutcomes :
            /\ out = "ok" => ValidReference(s.imageName)
            /\ store \in {"truncated", "ok"} => StatePathUsable(s.config.name)
            /\ images' =
                 IF out = "ok"
                 THEN RmiForce(images, s.imageName, rmiOk) \cup {s.imageName}
                 ELSE RmiForce(images, s.imageName, rmiOk)
            /\ containers' =
                 RmiForceContainers(images, containers, s.imageName, rmiOk)
            /\ stateFiles' =
                 IF StateWritten(out, store)
                 THEN [stateFiles EXCEPT ![s.config.name] =
                         AFile(StateData(s.config.name, s.currentHash))]
                 ELSE IF StateTruncated(out, store)
                 THEN [stateFiles EXCEPT ![s.config.name] = AFile(<<>>)]
                 ELSE stateFiles
            /\ inst' = [inst EXCEPT ![p] =
                  [s EXCEPT
                     !.pc = IF BuildFails(out, store) THEN "fatal" ELSE "ensured",
                     !.failure = IF out # "ok" THEN "build"
                                 ELSE IF store = "statedir" THEN "state"
                                 ELSE "",
                     !.projBuilds = IF out = "fs" THEN 0 ELSE 1]]
       /\ UNCHANGED <<procs, commands, cfgFiles, globalFile, lastRun, edits, externals,
                      hashVars>>

\* runContainer and runShell after buildProjectImage: the container of the
\* same name is removed, the image name is computed again, and podman run
\* is called; it starts a container only of an image the runtime holds
Launch(p) ==
    LET s == inst[p]
        name == ContainerName(s.cmd, s.dir)
        kept == IF \E c \in containers : Contains(c.name, name)
                THEN {c \in containers : c.name # name}
                ELSE containers
        imageName == getProjectImageName(s.config, Stat(s.dir))
        started == ImagePresent(images, imageName)
    IN /\ s.pc = "ensured"
       /\ \E ok \in BOOLEAN :
            /\ inst' = [inst EXCEPT ![p] =
                  [s EXCEPT
                     !.pc = IF started /\ ok THEN "done" ELSE "fatal",
                     !.failure = IF started /\ ok THEN "" ELSE "launch",
                     !.launchImage = imageName]]
            /\ lastRun' = [lastRun EXCEPT ![s.dir] =
                  IF started /\ ok /\ cfgFiles[s.dir] = s.cfg0
                  THEN [ok |-> TRUE, image |-> s.imageName]
                  ELSE lastRun[s.dir]]
       /\ containers' =
            IF started
            THEN kept \cup {[name |-> name, image |-> imageName]}
            ELSE kept
       /\ globalFile' = initGlobalConfig(globalFile)
       /\ UNCHANGED <<procs, commands, cfgFiles, stateFiles, images, edits, externals,
                      hashVars>>

\* the process ends, with os.Exit or by returning from main
Exit(p) ==
    /\ inst[p].pc \in {"done", "fatal"}
    /\ inst' = [inst EXCEPT ![p] = Idle]
    /\ UNCHANGED <<procs, commands, cfgFiles, globalFile, stateFiles, images, containers,
                   lastRun, edits, externals, hashVars>>

\* fmt.Sprintf("viber00t/%s", name)
projectPattern_NoProject(name) == <<"viber00t">>

projectPattern(name) == <<"viber00t/">> \o name

\* what podman images prints in front of {{.Repository}}: nothing, or the
\* registry it files a local image under
ListedRegistries == {<<>>, <<"localhost/">>}

\* podman images --filter reference=<pattern>*, as the runtime selects
Listed(imgs, pattern) == {img \in imgs : HasPrefix(img, pattern)}

\* the references cleanImages calls podman rmi for: the printed lines that
\* are not empty and start with the pattern
CleanTargets(imgs, name, reg) ==
    {img \in Listed(imgs, projectPattern(name)) :
        reg \o img # <<>> /\ HasPrefix(reg \o img, projectPattern(name))}

\* main with "clean": cleanImages.  Every podman rmi is without -f and best
\* effort; the state file is removed when it is there, and a failure of
\* os.Remove is only printed
Clean(p, d) ==
    /\ p \in procs
    /\ "clean" \in commands
    /\ inst[p].pc = "idle"
    /\ globalFile' = initGlobalConfig(globalFile)
    /\ IF cfgFiles[d].exists
       THEN LET config == loadConfig(cfgFiles[d].data,
                                     loadGlobalConfig(globalFile))
            IN /\ \E reg \in ListedRegistries, ok \in BOOLEAN :
                    images' =
                       images \ {img \in CleanTargets(images, config.name, reg) :
                                   ok /\ RmiAllowed(images, containers, img)}
               /\ \E removed \in BOOLEAN :
                    stateFiles' =
                       IF removed
                       THEN [stateFiles EXCEPT ![config.name] = NoFile]
                       ELSE stateFiles
               /\ inst' = [inst EXCEPT ![p] =
                     [Idle EXCEPT
                        !.pc = "done", !.cmd = "clean", !.dir = d,
                        !.cfg0 = cfgFiles[d], !.config = config]]
       ELSE /\ inst' = [inst EXCEPT ![p] =
                  [Idle EXCEPT
                     !.pc = "fatal", !.cmd = "clean", !.dir = d,
                     !.failure = "config"]]
            /\ UNCHANGED <<images, stateFiles>>
    /\ lastRun' = [dd \in Dirs |-> NoRun]
    /\ UNCHANGED <<procs, commands, cfgFiles, containers, edits, externals,
                   hashVars>>

-----------------------------------------------------------------------------
(* The user.  What the user does while an ended instance has not yet left  *)
(* is what the user does right after it left.                              *)

NoneEnded == \A p \in Procs : inst[p].pc \notin {"done", "fatal"}

\* Viber00t.toml of directory d is saved with another install section, or
\* the same one; its mtime, in seconds, stays (later = 0) or moves on
EditConfig(d, i, later) ==
    /\ NoneEnded
    /\ cfgFiles[d].exists
    /\ edits < MaxEdits
    /\ <<i, later>> # <<cfgFiles[d].data.install, 0>>
    /\ cfgFiles' = [cfgFiles EXCEPT ![d].data.install = i,
                                    ![d].mtime = @ + later]
    /\ edits' = edits + 1
    /\ lastRun' = [lastRun EXCEPT ![d] = NoRun]
    /\ UNCHANGED <<procs, commands, globalFile, stateFiles, images, containers, inst,
                   externals, hashVars>>

\* podman rmi -f <ref>, by hand
ExternalRemove(ref) ==
    /\ NoneEnded
    /\ ref \in images
    /\ externals < MaxExternal
    /\ images' = images \ {ref}
    /\ containers' = {c \in containers : c.image # ref}
    /\ externals' = externals + 1
    /\ lastRun' = [d \in Dirs |-> NoRun]
    /\ UNCHANGED <<procs, commands, cfgFiles, globalFile, stateFiles, inst, edits,
                   hashVars>>

Next ==
    \/ \E p \in Procs, d \in Dirs, cmd \in {"run", "shell"} : Start(p, d, cmd)
    \/ \E p \in Procs : Decide(p)
    \/ \E p \in Procs : EnsureBase(p)
    \/ \E p \in Procs : BuildProject(p)
    \/ \E p \in Procs : Launch(p)
    \/ \E p \in Procs : Exit(p)
    \/ \E d \in Dirs, i \in Installs, later \in {0, 1} : EditConfig(d, i, later)
    \/ \E ref \in images : ExternalRemove(ref)

Spec == Init /\ [][Next]_vars

-----------------------------------------------------------------------------
(* The image cache: what is checked of it *)

\* the fingerprint of the configuration instance p loaded, as of now
CurrentFingerprint(p) == getConfigHash(inst[p].config, Stat(inst[p].dir))

\* the state file of p's project holds the record of fingerprint f
Recorded(p, f) ==
    stateFiles[inst[p].config.name] = AFile(StateData(inst[p].config.name, f))

\* the record and the image of p's current fingerprint are both there
CacheValid(p) ==
    /\ Recorded(p, CurrentFingerprint(p))
    /\ ImageRef(inst[p].config.name, CurrentFingerprint(p)) \in images

\* the step in which buildProjectImage of instance p returns nil
Returns(p) == inst[p].pc # "ensured" /\ inst'[p].pc = "ensured"

\* the step in which instance p goes through the reuse decision
Decides(p) == inst[p].pc = "loaded" /\ inst'[p].pc # "loaded"

\* the record p found is that of another fingerprint than p's own
FoundOtherRecord(p) ==
    /\ inst'[p].rec0.exists
    /\ inst'[p].rec0.data # StateData(inst'[p].config.name, inst'[p].currentHash)

\* the state file of p's project after the step holds p's fingerprint
RecordedAfter(p) ==
    stateFiles'[inst'[p].config.name] =
        AFile(StateData(inst'[p].config.name, inst'[p].currentHash))

\* C1: buildProjectImage returns success without a project-image build only
\* from a state in which the record of the current fingerprint F exists and
\* the runtime holds the image tagged (projectName, F); every other return
\* of success comes after a project-image build.
C1_NoStaleImageReused ==
    [][\A p \in Procs :
          Returns(p) =>
             \/ inst'[p].projBuilds = 1
             \/ Decides(p) /\ CacheValid(p)]_vars

\* C1 witness: a return of success without a build
C1_Witness ==
    \E p \in procs :
       inst[p].pc = "ensured" /\ ~inst[p].needsBuild /\ inst[p].projBuilds = 0

\* C2: with the record of fingerprint F persisted, its image present and a
\* config hashing to F, buildProjectImage returns at once: no base-image
\* build, no project-image build, and the runtime's images are untouched.
C2_CacheHitBuildsNothing ==
    [][\A p \in Procs :
          Decides(p) /\ CacheValid(p) =>
             /\ inst'[p].pc = "ensured"
             /\ inst'[p].baseBuilds = 0
             /\ inst'[p].projBuilds = 0
             /\ images' = images]_vars

\* C2 witness: a cache hit, the record and the image still there
C2_Witness ==
    \E p \in procs :
       /\ inst[p].pc = "ensured"
       /\ inst[p].baseBuilds = 0 /\ inst[p].projBuilds = 0
       /\ inst[p].rec0.exists
       /\ CacheValid(p)

\* C3 as claimed: with a record of F1 persisted and a config hashing to
\* F2 # F1, a successful buildProjectImage has issued one removal, of the
\* image recorded under F1, and one project-image build, and the record
\* afterwards holds F2.
C3_InvalidationAsClaimed ==
    [][\A p \in Procs :
          Returns(p) /\ FoundOtherRecord(p) =>
             /\ inst'[p].oldRemovals = 1
             /\ inst'[p].oldImage = inst'[p].rec0.data
             /\ inst'[p].projBuilds = 1
             /\ RecordedAfter(p)]_vars

\* C4: when the base-image build or the project-image build fails, the
\* invocation has ended fatally, no launch was issued, the state file is
\* what it was when the invocation read it, and the reuse decision for the
\* same fingerprint still says "build".
C4_FailedBuildLeavesNoState ==
    \A p \in Procs :
       inst[p].failure \in {"base", "build"} =>
          /\ inst[p].pc = "fatal"
          /\ inst[p].launchImage = <<>>
          /\ stateFiles[inst[p].config.name] = inst[p].rec0
          /\ NeedsBuild(ParseState(stateFiles[inst[p].config.name]),
                        inst[p].currentHash,
                        ImagePresent(images, inst[p].imageName))

\* C4 witness: a failed project-image build of a project with a record
C4_Witness ==
    \E p \in procs :
       /\ inst[p].pc = "fatal" /\ inst[p].failure = "build"
       /\ inst[p].projBuilds = 1
       /\ inst[p].rec0.exists

\* C5 as claimed: whenever buildProjectImage returns success, the state
\* file holds the current fingerprint F with the reference
\* viber00t/<projectName>:<F>, and the runtime holds that image.
C5_SuccessMeansRecorded ==
    [][\A p \in Procs :
          Returns(p) =>
             /\ RecordedAfter(p)
             /\ ImageRef(inst'[p].config.name, inst'[p].currentHash) \in images']_vars

\* C6 as claimed: after an invocation that succeeded, with the config file
\* and the images left alone, the next invocation builds nothing and
\* resolves the same image.
C6_RerunBuildsNothing ==
    [][\A p \in Procs :
          Decides(p) /\ lastRun[inst[p].dir].ok =>
             /\ inst'[p].pc = "ensured"
             /\ inst'[p].imageName = lastRun[inst[p].dir].image]_vars

\* the container the earlier invocation started from the recorded image is
\* still there
EarlierContainerKept(p) ==
    \E c \in containers :
       /\ c.name = ContainerName(inst[p].cmd, inst[p].dir)
       /\ c.image = inst[p].rec0.data

\* C7 as claimed, for the case it names: the earlier run's container still
\* exists, the fingerprint changed, and when the second run has ensured its
\* image the old tag is gone from the runtime, the new one is there and
\* the state file names the new one.
C7_SupersededImageRemoved ==
    [][\A p \in Procs :
          Returns(p) /\ FoundOtherRecord(p) /\ EarlierContainerKept(p) =>
             /\ inst'[p].rec0.data \notin images'
             /\ inst'[p].imageName \in images'
             /\ RecordedAfter(p)]_vars

\* C8 as claimed: the image reference of the launch is the one
\* buildProjectImage resolved earlier in the invocation.
C8_LaunchesEnsuredImage ==
    \A p \in Procs :
       inst[p].launchImage # <<>> => inst[p].launchImage = inst[p].imageName

\* the record p found is that of p's own fingerprint, and p builds all the
\* same: the runtime did not hold the recorded image
FoundOwnRecordOnly(p) ==
    /\ inst'[p].rec0 =
          AFile(StateData(inst'[p].config.name, inst'[p].currentHash))
    /\ inst'[p].needsBuild

\* C19 as claimed: with the record of the current fingerprint F found and
\* its image missing from the runtime, a successful buildProjectImage has
\* issued no removal of an older tag and one project-image build, of the
\* tag (projectName, F), and the record afterwards holds F.
C19_MissingImageRebuilt ==
    [][\A p \in Procs :
          Returns(p) /\ FoundOwnRecordOnly(p) =>
             /\ inst'[p].oldRemovals = 0
             /\ inst'[p].projBuilds = 1
             /\ inst'[p].imageName =
                   ImageRef(inst'[p].config.name, inst'[p].currentHash)
             /\ RecordedAfter(p)]_vars

-----------------------------------------------------------------------------
(* The fingerprint, as a function: two configurations are resolved, and    *)
(* their fingerprints and project build contexts are put side by side.     *)

\* the Viber00t.toml files that are compared
HashProjects ==
    [name : {NameA, NameAB},
     agent : {<<>>, PkgB},
     privileged : BOOLEAN,
     install : { <<>>,
                 <<[packages |-> <<PkgAB>>, envs |-> <<>>]>>,
                 <<[packages |-> <<PkgA, PkgB>>, envs |-> <<>>]>>,
                 <<[packages |-> <<PkgB, PkgA>>, envs |-> <<>>]>>,
                 <<[packages |-> <<>>, envs |-> <<Python>>]>>,
                 <<[packages |-> <<Python>>, envs |-> <<>>]>>,
                 <<[packages |-> <<>>, envs |-> <<Rust, Python>>]>>,
                 <<[packages |-> <<PkgA, PkgB>>, envs |-> <<>>],
                   [packages |-> <<Python>>, envs |-> <<Python>>]>> }]

\* the global files they are resolved with
HashGlobals ==
    { NoFile, GlobalWithPackage,
      AFile([defaultAgent |-> <<>>, defaultPackages |-> <<>>,
             defaultEnvs |-> <<Python>>]) }

HashInputs == [project : HashProjects, global : HashGlobals, mtime : 1..MaxMtime]

\* loadConfig, getConfigHash and generateDockerfile of one input, the way
\* buildProjectImage calls them
Resolve(in) ==
    LET g == loadGlobalConfig(in.global)
        config == loadConfig(in.project, g)
        baseImage == BaseImageName(BaseEnv(config))
    IN [config |-> config,
        hash |-> getConfigHash(config, in.mtime),
        baseImage |-> baseImage,
        packages |-> projectPackages(config, g),
        allPackages |-> allPackages(config),
        dockerfile |-> generateDockerfile(config, g, baseImage)]

InitHash ==
    /\ procs = {}
    /\ commands = {}
    /\ cfgFiles = [d \in Dirs |-> NoCfgFile]
    /\ globalFile = NoFile
    /\ stateFiles = [n \in ProjectNames |-> NoFile]
    /\ images = {}
    /\ containers = {}
    /\ inst = [p \in Procs |-> Idle]
    /\ lastRun = [d \in Dirs |-> NoRun]
    /\ edits = 0
    /\ externals = 0
    /\ hIn \in HashInputs \X HashInputs
    /\ hOut = <<>>

\* both inputs are resolved and fingerprinted
Fingerprint ==
    /\ hOut = <<>>
    /\ hOut' = <<Resolve(hIn[1]), Resolve(hIn[2])>>
    /\ UNCHANGED <<cacheVars, hIn>>

NextHash == Fingerprint

SpecHash == InitHash /\ [][NextHash]_vars

\* the packages and environments a fingerprint is taken of
HashedPackages(config) ==
    IF Len(config.install) > 0 THEN config.install[1].packages ELSE <<>>
HashedEnvs(config) ==
    IF Len(config.install) > 0 THEN config.install[1].envs ELSE <<>>

\* C9 as claimed: for one project name and one mtime, two resolved
\* configurations whose project build contexts differ (another base image
\* or another install list in the Dockerfile) have different fingerprints.
C9_FingerprintCoversBuildContext ==
    ( /\ hOut # <<>>
      /\ hIn[1].project.name = hIn[2].project.name
      /\ hIn[1].mtime = hIn[2].mtime
      /\ \/ hOut[1].baseImage # hOut[2].baseImage
         \/ hOut[1].packages # hOut[2].packages )
    => hOut[1].hash # hOut[2].hash

\* C10 as claimed: two fingerprint inputs that differ in the project name,
\* the agent, privileged, the package sequence, the environment sequence or
\* the mtime have different fingerprints.
C10_FingerprintSensitive ==
    ( /\ hOut # <<>>
      /\ \/ hOut[1].config.name # hOut[2].config.name
         \/ hOut[1].config.agent # hOut[2].config.agent
         \/ hOut[1].config.privileged # hOut[2].config.privileged
         \/ HashedPackages(hOut[1].config) # HashedPackages(hOut[2].config)
         \/ HashedEnvs(hOut[1].config) # HashedEnvs(hOut[2].config)
         \/ hIn[1].mtime # hIn[2].mtime )
    => hOut[1].hash # hOut[2].hash

\* the elements of a sequence
Range(seq) == {seq[i] : i \in 1..Len(seq)}

\* every package of every install block of input k is in the Dockerfile's
\* install list or in VIBER00T_INSTALL, and every environment of every block
\* is the base environment or has its packages in VIBER00T_INSTALL
AllBlocksInstalled(k) ==
    LET blocks == hIn[k].project.install
        installed == Range(hOut[k].packages) \cup Range(hOut[k].allPackages)
    IN \A i \in 1..Len(blocks) :
          /\ Range(blocks[i].packages) \subseteq installed
          /\ \A env \in Range(blocks[i].envs) :
                \/ hOut[k].baseImage = BaseImageName(env)
                \/ Range(envTemplates(env)) \subseteq installed

\* the two inputs differ, and only in install blocks after the first
LaterBlocksDiffer ==
    /\ hIn[1].project.install # hIn[2].project.install
    /\ Len(hIn[1].project.install) > 0 /\ Len(hIn[2].project.install) > 0
    /\ hIn[1].project.install[1] = hIn[2].project.install[1]
    /\ [hIn[1] EXCEPT !.project.install = <<>>]
         = [hIn[2] EXCEPT !.project.install = <<>>]

\* C17 as claimed: the packages and environments of every install block are
\* installed, and two configurations that differ in a later block use
\* different images.
C17_InstallBlocksStack ==
    hOut # <<>> =>
       /\ AllBlocksInstalled(1) /\ AllBlocksInstalled(2)
       /\ LaterBlocksDiffer => hOut[1].hash # hOut[2].hash

\* default_envs of the global file of input k, [] when there is no file
GlobalEnvs(k) ==
    IF hIn[k].global.exists THEN hIn[k].global.data.defaultEnvs ELSE <<>>

\* the environments the Viber00t.toml of input k lists in its first
\* install block
ProjectEnvs(k) ==
    IF Len(hIn[k].project.install) > 0
    THEN hIn[k].project.install[1].envs
    ELSE <<>>

\* C20 as claimed: the base image is that of the first environment the
\* project's first install block lists, and viber00t:base-base when the
\* project lists none, whatever the global default environments are.
C20_BaseTierFromProjectOnly ==
    hOut # <<>> =>
       \A k \in 1..2 :
          hOut[k].baseImage =
             BaseImageName(IF Len(ProjectEnvs(k)) > 0
                           THEN ProjectEnvs(k)[1]
                           ELSE <<"base">>)

\* C20, amended: for a project with an install block the base image is
\* that of the first environment of the global default environments
\* followed by the environments of the first install block, and
\* viber00t:base-base when both are empty.
C20_BaseTierSelection ==
    hOut # <<>> =>
       \A k \in 1..2 :
          Len(hIn[k].project.install) > 0 =>
             LET envs == GlobalEnvs(k) \o ProjectEnvs(k)
             IN hOut[k].baseImage =
                   BaseImageName(IF Len(envs) > 0 THEN envs[1]
                                 ELSE <<"base">>)

\* C20 witness: a project that lists rust first, resolved with a global
\* file whose default environment is python, is built from the python base
C20_Witness ==
    /\ hOut # <<>>
    /\ GlobalEnvs(1) = <<Python>>
    /\ ProjectEnvs(1) = <<Rust, Python>>
    /\ hOut[1].baseImage = BaseImageName(Python)

\* default_packages of the global file of input k
GlobalPackages(k) ==
    IF hIn[k].global.exists THEN hIn[k].global.data.defaultPackages ELSE <<>>

\* the packages the Viber00t.toml of input k lists in its first install
\* block
ProjectPackages(k) ==
    IF Len(hIn[k].project.install) > 0
    THEN hIn[k].project.install[1].packages
    ELSE <<>>

\* the package and environment sequences of the configuration loadConfig
\* returned for input k
EffectivePackages(k) ==
    IF Len(hOut[k].config.install) > 0
    THEN hOut[k].config.install[1].packages
    ELSE <<>>

EffectiveEnvs(k) ==
    IF Len(hOut[k].config.install) > 0
    THEN hOut[k].config.install[1].envs
    ELSE <<>>

\* default_agent of the global file of input k, "claude" when it sets none
GlobalAgent(k) ==
    IF hIn[k].global.exists /\ hIn[k].global.data.defaultAgent # <<>>
    THEN hIn[k].global.data.defaultAgent
    ELSE Claude

\* C22 as claimed: for every project file and global file, the effective
\* packages are the global default packages followed by the project's, the
\* effective environments the global default environments followed by the
\* project's, and the agent is the project's, or the global default agent
\* when the project sets none.
C22_MergePolicy ==
    hOut # <<>> =>
       \A k \in 1..2 :
          /\ EffectivePackages(k) = GlobalPackages(k) \o ProjectPackages(k)
          /\ EffectiveEnvs(k) = GlobalEnvs(k) \o ProjectEnvs(k)
          /\ hOut[k].config.agent =
                IF hIn[k].project.agent = <<>>
                THEN GlobalAgent(k)
                ELSE hIn[k].project.agent

\* C23 as claimed: the install list of the project build context is the
\* global default packages followed by the packages the project declares,
\* and the context is layered on the resolved base image.
C23_InstallListExact ==
    hOut # <<>> =>
       \A k \in 1..2 :
          /\ hOut[k].packages = GlobalPackages(k) \o ProjectPackages(k)
          /\ HasPrefix(hOut[k].dockerfile, <<"FROM ">> \o hOut[k].baseImage)

-----------------------------------------------------------------------------
(* Two projects that share a base image, run, shell and clean, one         *)
(* invocation after the other.                                             *)

\* the names of the two projects, and the command next to clean
ProjectScenarios ==
    { [cmds |-> {"run", "clean"}, names |-> <<NameA, NameAB>>],
      [cmds |-> {"shell", "clean"}, names |-> <<NameAB, NameA>>],
      [cmds |-> {"run", "clean"}, names |-> <<NameEmpty, NameA>>],
      [cmds |-> {"run", "clean"}, names |-> <<NameA, NameASlashB>>] }

InitProjects ==
    /\ procs = {1}
    /\ \E sc \in ProjectScenarios :
         /\ commands = sc.cmds
         /\ cfgFiles =
              [d \in Dirs |->
                  [exists |-> TRUE, mtime |-> 1,
                   data |-> [name |-> IF d = "d1" THEN sc.names[1]
                                                  ELSE sc.names[2],
                             agent |-> <<>>, privileged |-> FALSE,
                             install |-> PythonInstall]]]
    /\ globalFile = NoFile
    /\ stateFiles = [n \in ProjectNames |-> NoFile]
    /\ images = {}
    /\ containers = {}
    /\ inst = [p \in Procs |-> Idle]
    /\ lastRun = [d \in Dirs |-> NoRun]
    /\ edits = 0
    /\ externals = 0
    /\ hashIdle

NextProjects ==
    \/ \E p \in Procs, d \in Dirs, cmd \in {"run", "shell"} : Start(p, d, cmd)
    \/ \E p \in Procs : Decide(p)
    \/ \E p \in Procs : EnsureBase(p)
    \/ \E p \in Procs : BuildProject(p)
    \/ \E p \in Procs : Launch(p)
    \/ \E p \in Procs : Exit(p)
    \/ \E p \in Procs, d \in Dirs : Clean(p, d)

SpecProjects == InitProjects /\ [][NextProjects]_vars

\* a reference of a base image: "viber00t:<env>-base"
IsBaseImage(ref) == Len(ref) > 0 /\ ref[1] = "viber00t"

\* the step in which instance p issues a base-image build
BuildsBase(p) == inst[p].baseBuilds = 0 /\ inst'[p].baseBuilds = 1

\* C11: no step of a run, shell or clean invocation removes a base image
\* the runtime holds, and a base-image build is issued only for a reference
\* the runtime does not hold; so the second of two projects with the same
\* environment finds the base image and does not build it.
C11_BaseImageKept ==
    [][/\ \A ref \in images : IsBaseImage(ref) => ref \in images'
       /\ \A p \in Procs :
             BuildsBase(p) =>
                BaseImageName(BaseEnv(inst[p].config)) \notin images]_vars

\* C11 witness: after one project was built and cleaned, the other project
\* has built its image on the base image that was there, without a base
\* build
C11_Witness ==
    \E p \in procs :
       /\ inst[p].pc = "ensured" /\ inst[p].dir = "d2"
       /\ inst[p].projBuilds = 1 /\ inst[p].baseBuilds = 0
       /\ inst[p].baseImage \in images
       /\ \E ref \in images : ref # inst[p].imageName /\ ~IsBaseImage(ref)

\* the step in which instance p runs cleanImages to its end
Cleans(p) ==
    inst[p].pc = "idle" /\ inst'[p].pc = "done" /\ inst'[p].cmd = "clean"

\* ref is a project image of the project called name
ImageOfProject(ref, name) == Split(ref, Colon)[1] = <<"viber00t/">> \o name

\* C12 as claimed: clean for project P removes P's project images and P's
\* state file, and leaves every other image, base images included, and
\* every other project's state file as they were.
C12_CleanTouchesOnlyItsProject ==
    [][\A p \in Procs :
          Cleans(p) =>
             LET name == inst'[p].config.name
             IN /\ \A ref \in images :
                      IF ImageOfProject(ref, name)
                      THEN ref \notin images'
                      ELSE ref \in images'
                /\ stateFiles'[name] = NoFile
                /\ \A other \in ProjectNames \ {name} :
                      stateFiles'[other] = stateFiles[other]]_vars

\* C14 as claimed: an invocation that loaded a configuration with an empty
\* project name ends fatally before it reads a state file, asks the runtime
\* for an image, removes one or builds one.
C14_EmptyNameIsFatal ==
    \A p \in Procs :
       inst[p].cfg0.exists /\ inst[p].config.name = NameEmpty =>
          /\ inst[p].pc \in {"loaded", "fatal"}
          /\ inst[p].baseBuilds = 0
          /\ inst[p].projBuilds = 0

-----------------------------------------------------------------------------
(* Two instances of the tool at once, in the same project directory.       *)

InitRace ==
    /\ procs = {1, 2}
    /\ commands = {"run"}
    /\ cfgFiles =
         [d \in Dirs |->
             IF d = "d1"
             THEN [exists |-> TRUE, mtime |-> 1,
                   data |-> [name |-> NameA, agent |-> <<>>,
                             privileged |-> FALSE, install |-> FirstInstall]]
             ELSE NoCfgFile]
    /\ globalFile = NoFile
    /\ stateFiles = [n \in ProjectNames |-> NoFile]
    /\ images = {}
    /\ containers = {}
    /\ inst = [p \in Procs |-> Idle]
    /\ lastRun = [d \in Dirs |-> NoRun]
    /\ edits = 0
    /\ externals = 0
    /\ hashIdle

NextRace ==
    \/ \E p \in Procs, d \in Dirs, cmd \in {"run", "shell"} : Start(p, d, cmd)
    \/ \E p \in Procs : Decide(p)
    \/ \E p \in Procs : EnsureBase(p)
    \/ \E p \in Procs : BuildProject(p)
    \/ \E p \in Procs : Launch(p)
    \/ \E p \in Procs : Exit(p)

SpecRace == InitRace /\ [][NextRace]_vars

\* C18: nothing makes an instance wait for, or rely on, another one: an
\* instance that takes the reuse decision without a record of its
\* fingerprint whose image the runtime holds goes on to build, also while
\* another instance is building the same tag.
C18_DecisionIgnoresOtherInstances ==
    [][\A p \in Procs :
          Decides(p) /\ ~CacheValid(p) =>
             inst'[p].needsBuild /\ inst'[p].pc = "base"]_vars

\* C18 witness: both instances are past the reuse decision with needsBuild
\* true, for the same tag and the same state file
C18_Witness ==
    /\ \A p \in {1, 2} :
          inst[p].pc \in {"base", "build"} /\ inst[p].needsBuild
    /\ inst[1].imageName = inst[2].imageName
    /\ inst[1].config.name = inst[2].config.name

-----------------------------------------------------------------------------
(* A state file the tool did not write: the invocations of one project     *)
(* start from a state file of any content.                                 *)

\* an image of the runtime that is none of the tool's
ForeignImage == <<"x", Colon, "y">>

\* the image of an earlier configuration of project a
StaleImage == ImageRef(NameA, <<"old">>)

\* contents of <name>.state: empty, without ":", with one ":", with more
RecordContents ==
    { <<>>, <<"x">>, <<"x", "\n">>, <<Colon>>, <<"x", Colon>>, ForeignImage,
      StaleImage,
      <<"x", Colon, "y", Colon, "z">>, <<Colon, Colon>>,
      <<"viber00t/", "a", Colon, "x", Colon, "y">> }

InitRecord ==
    /\ procs = {1}
    /\ commands = {"run", "shell", "clean"}
    /\ cfgFiles =
         [d \in Dirs |->
             IF d = "d1"
             THEN [exists |-> TRUE, mtime |-> 1,
                   data |-> [name |-> NameA, agent |-> <<>>,
                             privileged |-> FALSE, install |-> FirstInstall]]
             ELSE NoCfgFile]
    /\ globalFile = NoFile
    /\ \E file \in {NoFile} \cup {AFile(c) : c \in RecordContents} :
          stateFiles = [n \in ProjectNames |->
                          IF n = NameA THEN file ELSE NoFile]
    /\ images \in SUBSET {ForeignImage, StaleImage}
    /\ containers = {}
    /\ inst = [p \in Procs |-> Idle]
    /\ lastRun = [d \in Dirs |-> NoRun]
    /\ edits = 0
    /\ externals = 0
    /\ hashIdle

NextRecord ==
    \/ \E p \in Procs, d \in Dirs, cmd \in {"run", "shell"} : Start(p, d, cmd)
    \/ \E p \in Procs : Decide(p)
    \/ \E p \in Procs : EnsureBase(p)
    \/ \E p \in Procs : BuildProject(p)
    \/ \E p \in Procs : Launch(p)
    \/ \E p \in Procs : Exit(p)
    \/ \E p \in Procs, d \in Dirs : Clean(p, d)

SpecRecord == InitRecord /\ [][NextRecord]_vars

\* the number of ":" in a string
RECURSIVE CountColons(_)
CountColons(str) ==
    IF str = <<>> THEN 0
    ELSE (IF Head(str) = Colon THEN 1 ELSE 0) + CountColons(Tail(str))

\* the state file cannot be read, or is not two parts with one ":" between
Malformed(file) == ~file.exists \/ CountColons(file.data) # 1

C25_CleanupFailuresDropped ==
    [][\A p \in Procs :
          /\ Decides(p) /\ FoundOtherRecord(p) =>
                /\ inst'[p].pc = "base"
                /\ inst'[p].failure = ""
          /\ ( /\ inst[p].pc = "build" /\ inst'[p].pc # "build"
               /\ inst[p].imageName \in images ) =>
                /\ inst'[p].failure \in {"", "build", "state"}
                /\ inst'[p].failure = "" =>
                      /\ inst'[p].pc = "ensured"
                      /\ inst[p].imageName \in images'
          /\ ( /\ inst[p].pc = "idle" /\ inst'[p].pc # "idle"
               /\ inst'[p].cmd = "clean"
               /\ inst'[p].cfg0.exists ) =>
                /\ inst'[p].pc = "done"
                /\ inst'[p].failure = ""]_vars

\* C25 witness: the removal of the old image failed, the image is still in
\* the runtime, and the invocation has built and ensured its image
C25_Witness ==
    \E p \in procs :
       /\ inst[p].pc = "ensured"
       /\ inst[p].oldRemovals = 1
       /\ inst[p].oldImage = StaleImage
       /\ StaleImage \in images
       /\ inst[p].projBuilds = 1

-----------------------------------------------------------------------------
(* One invocation, from the command line and the files it finds to the     *)
(* launch it asks for, as a function.                                      *)

\* the words of a command line
HelpWords == {<<"help">>, <<"-h">>, <<"--help">>}
VersionWords == {<<"version">>, <<"-v">>, <<"--version">>}
\* the words the command lines that are tried are made of
ArgWords ==
    {<<"--help">>, <<"version">>, <<"-v">>, <<"init">>, <<"clean">>,
     <<"shell">>, <<"-p">>, <<"x">>}

RECURSIVE SeqsUpTo(_, _)
\* the sequences over S of length at most n
SeqsUpTo(S, n) ==
    IF n = 0 THEN {<<>>}
    ELSE LET shorter == SeqsUpTo(S, n - 1)
         IN shorter \cup {Append(a, w) : a \in shorter, w \in S}

\* main: what os.Args[1:] asks for, and the arguments handed to
\* runContainer
Dispatch(args) ==
    LET special == {i \in 1..Len(args) : args[i] \in HelpWords \cup VersionWords}
        first == CHOOSE i \in special : \A j \in special : i <= j
    IN IF Len(args) < 1 THEN [action |-> "run", extraArgs |-> <<>>]
       ELSE IF special # {}
       THEN [action |-> IF args[first] \in HelpWords THEN "help" ELSE "version",
             extraArgs |-> <<>>]
       ELSE IF args[1] \in {<<"init">>, <<"clean">>, <<"shell">>}
       THEN [action |-> args[1][1], extraArgs |-> <<>>]
       ELSE [action |-> "run", extraArgs |-> args]

\* what runContainer, runShell and cleanImages print when loadConfig
\* returns an error
NotFoundMessage == "No Viber00t.toml found. Run 'viber00t init' first."

\* loadConfig with files that may be missing or not decodable: the error
\* it returns, or a nil pointer dereference, or the merged configuration
ResolveConfig(projectFile, gFile) ==
    IF projectFile.state = "absent"
    THEN [err |-> "read", panic |-> FALSE, config |-> ZeroConfig]
    ELSE IF projectFile.state = "malformed"
    THEN [err |-> "decode", panic |-> FALSE, config |-> ZeroConfig]
    ELSE IF gFile.state = "malformed"
    THEN [err |-> "", panic |-> TRUE, config |-> ZeroConfig]
    ELSE [err |-> "", panic |-> FALSE,
          config |-> loadConfig(projectFile.data,
                                loadGlobalConfig(IF gFile.state = "absent"
                                                 THEN NoFile
                                                 ELSE AFile(gFile.data)))]

Aider == <<"aider">>

\* loadGlobalConfig: claude_flags, with its default
ClaudeFlags(flags) ==
    IF Len(flags) = 0 THEN << <<"--dangerously-skip-permissions">> >> ELSE flags

DockerSock == <<"/var/run/docker.sock">>
PrivilegedFlags ==
    << <<"--privileged">>, <<"--security-opt">>, <<"label=disable">> >>
SockMount == << <<"-v">>, DockerSock \o <<Colon>> \o DockerSock >>

\* PrivilegedArgs with the mount outside the test of Privileged
PrivilegedArgs_MountOutside(config, sockExists) ==
    (IF config.privileged THEN PrivilegedFlags ELSE <<>>)
    \o (IF sockExists THEN SockMount ELSE <<>>)

\* "Add privileged mode if requested", the same in runContainer and runShell
PrivilegedArgs(config, sockExists) ==
    IF config.privileged
    THEN PrivilegedFlags \o (IF sockExists THEN SockMount ELSE <<>>)
    ELSE <<>>

\* os.Getenv("HOME")
Home == <<"/home/u">>

\* expandPath that leaves the path as it is
expandPath_TildeKept(path) == path

\* expandPath: "~/" at the front becomes the home directory
\* (filepath.Join(home, path[2:]))
expandPath(path) ==
    IF HasPrefix(path, <<"~/">>)
    THEN IF Len(path) > 1
         THEN Home \o <<Slash>> \o SubSeq(path, 2, Len(path))
         ELSE Home
    ELSE path

\* the files and directories of the home directory that are mounted when
\* they are there, in the order of the source, with what follows the host
\* path in the -v argument
CredentialPaths ==
    << [name |-> <<".claude">>, mount |-> <<":/root/.claude:rw">>],
       [name |-> <<".claude.json">>, mount |-> <<":/root/.claude.json:rw">>],
       [name |-> <<".gitconfig">>, mount |-> <<":/root/.gitconfig:ro">>],
       [name |-> <<".git-credentials">>,
        mount |-> <<":/root/.git-credentials:ro">>],
       [name |-> <<".ssh">>, mount |-> <<":/root/.ssh:ro">>] >>

\* the -v argument of one of them
CredentialMount(c) ==
    << <<"-v">>, Home \o <<Slash>> \o c.name \o c.mount >>

RECURSIVE CredentialArgs(_, _)
\* "Mount ... if it exists": one -v per path that os.Stat finds
CredentialArgs(paths, present) ==
    IF paths = <<>> THEN <<>>
    ELSE (IF Head(paths).name \in present
          THEN CredentialMount(Head(paths)) ELSE <<>>)
         \o CredentialArgs(Tail(paths), present)

RECURSIVE PortArgs(_)
\* "Add ports": one -p per entry with a host and a container port
PortArgs(ports) ==
    IF ports = <<>> THEN <<>>
    ELSE LET port == Head(ports)
         IN (IF port.host # 0 /\ port.container # 0
             THEN << <<"-p">>,
                     FormatInt(port.host) \o <<Colon>>
                        \o FormatInt(port.container) >>
             ELSE <<>>)
            \o PortArgs(Tail(ports))

RECURSIVE VolumeArgs(_)
\* "Add volumes": one -v per entry with a source and a target
VolumeArgs(volumes) ==
    IF volumes = <<>> THEN <<>>
    ELSE LET vol == Head(volumes)
         IN (IF vol.source # <<>> /\ vol.target # <<>>
             THEN << <<"-v">>,
                     expandPath(vol.source) \o <<Colon>> \o vol.target
                        \o <<Colon, "Z">> >>
             ELSE <<>>)
            \o VolumeArgs(Tail(volumes))

\* AgentCommand with the flags appended after the extra arguments
AgentCommand_ArgsFirst(config, claudeFlags, extraArgs) ==
    IF config.agent # <<>>
    THEN <<config.agent>>
         \o extraArgs
         \o (IF config.agent = Claude /\ Len(claudeFlags) > 0
             THEN claudeFlags ELSE <<>>)
    ELSE <<>>

\* runContainer: "Run with specified agent and flags"
AgentCommand(config, claudeFlags, extraArgs) ==
    IF config.agent # <<>>
    THEN <<config.agent>>
         \o (IF config.agent = Claude /\ Len(claudeFlags) > 0
             THEN claudeFlags ELSE <<>>)
         \o extraArgs
    ELSE <<>>

\* the arguments of podman run that runContainer and runShell put together:
\* the options in front of the image, the image, and the command after it
LaunchArgs(action, d, config, volumes, ports, claudeFlags, extraArgs, sockExists, present, st) ==
    [options |->
        << <<"run">>, <<"-it">>, <<"--name">>, ContainerName(action, d),
           <<"--hostname">>, <<"viber00t">>, <<"--userns=keep-id:uid=0,gid=0">>,
           <<"-v">>, <<"/cwd/", d, ":/c0de/project">> >>
        \o CredentialArgs(CredentialPaths, present)
        \o PrivilegedArgs(config, sockExists)
        \o VolumeArgs(volumes)
        \o PortArgs(ports)
        \o << <<"-e">>, <<"TERM=xterm-256color">>,
              <<"-e">>, <<"VIBER00T_PROJECT=">> \o config.name,
              <<"-e">>, <<"IS_SANDBOX=true">> >>,
     image |-> getProjectImageName(config, st),
     command |-> IF action = "shell" THEN << <<"/bin/bash">> >>
                 ELSE AgentCommand(config, claudeFlags, extraArgs)]

NoLaunch == [options |-> <<>>, image |-> <<>>, command |-> <<>>]

\* main, for one command line: how the process ends before any image
\* operation ("return", "exit1" with its message, "panic"), or that it goes
\* on to the images ("continue") and, for run and shell, the launch
Main(in) ==
    LET dp == Dispatch(in.args)
        r == ResolveConfig(in.project, in.global)
        quick == [action |-> dp.action, exit |-> "return", report |-> "",
                  config |-> ZeroConfig, launch |-> NoLaunch]
    IN IF dp.action \in {"help", "version", "init"} THEN quick
       ELSE IF r.err # ""
       THEN [quick EXCEPT !.exit = "exit1", !.report = NotFoundMessage]
       ELSE IF r.panic
       THEN [quick EXCEPT !.exit = "panic"]
       ELSE [quick EXCEPT
               !.exit = "continue",
               !.config = r.config,
               !.launch =
                  IF dp.action = "clean" THEN NoLaunch
                  ELSE LaunchArgs(dp.action, "d1", r.config,
                                  in.project.volumes, in.project.ports,
                                  ClaudeFlags(in.global.claudeFlags),
                                  dp.extraArgs, in.sockExists, in.present,
                                  1)]

\* the Viber00t.toml and config.toml an invocation may find, and whether
\* /var/run/docker.sock is there
\* the [[volumes]] sections that are tried
VolumeLists ==
    { <<>>,
      <<[source |-> DockerSock, target |-> DockerSock]>>,
      <<[source |-> <<>>, target |-> <<"/data">>],
        [source |-> <<"~/", "data">>, target |-> <<"/data">>],
        [source |-> <<"/srv">>, target |-> <<"/srv">>]>> }

\* the [[ports]] sections that are tried
PortLists ==
    { <<>>,
      <<[host |-> 0, container |-> 0]>>,
      <<[host |-> 2, container |-> 1], [host |-> 0, container |-> 1],
        [host |-> 1, container |-> 2]>> }

MainProjects ==
    { [state |-> "absent", data |-> ZeroConfig, volumes |-> <<>>,
       ports |-> <<>>],
      [state |-> "malformed", data |-> ZeroConfig, volumes |-> <<>>,
       ports |-> <<>>] }
    \cup { [state |-> "ok",
            data |-> [name |-> NameA, agent |-> a, privileged |-> b,
                      install |-> FirstInstall],
            volumes |-> v, ports |-> q] :
           a \in {<<>>, Claude, Aider}, b \in BOOLEAN, v \in VolumeLists,
           q \in PortLists }

\* what os.Stat finds of the mounted paths of the home directory
PresentSets ==
    { {}, {<<".gitconfig">>, <<".ssh">>},
      {CredentialPaths[i].name : i \in 1..Len(CredentialPaths)} }

MainGlobals ==
    { [state |-> "absent", data |-> DefaultGlobalFile, claudeFlags |-> <<>>],
      [state |-> "malformed", data |-> DefaultGlobalFile, claudeFlags |-> <<>>] }
    \cup { [state |-> "ok",
            data |-> [defaultAgent |-> a, defaultPackages |-> <<>>,
                      defaultEnvs |-> <<>>],
            claudeFlags |-> f] :
           a \in {<<>>, Aider}, f \in {<<>>, << <<"--resume">> >>} }

MainInputs ==
    [args : SeqsUpTo(ArgWords, MaxArgs), project : MainProjects,
     global : MainGlobals, sockExists : BOOLEAN, present : PresentSets]

InitMain ==
    /\ procs = {}
    /\ commands = {}
    /\ cfgFiles = [d \in Dirs |-> NoCfgFile]
    /\ globalFile = NoFile
    /\ stateFiles = [n \in ProjectNames |-> NoFile]
    /\ images = {}
    /\ containers = {}
    /\ inst = [p \in Procs |-> Idle]
    /\ lastRun = [d \in Dirs |-> NoRun]
    /\ edits = 0
    /\ externals = 0
    /\ hIn \in MainInputs
    /\ hOut = <<>>

\* the invocation runs
Invoke ==
    /\ hOut = <<>>
    /\ hOut' = Main(hIn)
    /\ UNCHANGED <<cacheVars, hIn>>

NextMain == Invoke

SpecMain == InitMain /\ [][NextMain]_vars

\* C13 as claimed: with no Viber00t.toml the invocation reports
\* ConfigNotFound; with a malformed Viber00t.toml or config.toml it reports
\* another error, a parse error; in both cases it ends with a reported fatal
\* error and not a crash, before any image operation.
C13_ConfigErrorsReported ==
    ( /\ hOut # <<>>
      /\ hOut.action \in {"run", "shell", "clean"} )
    => /\ hIn.project.state = "absent" =>
             hOut.exit = "exit1" /\ hOut.report = NotFoundMessage
       /\ ( /\ hIn.project.state # "absent"
            /\ "malformed" \in {hIn.project.state, hIn.global.state} ) =>
             /\ hOut.exit = "exit1"
             /\ hOut.report \notin {"", NotFoundMessage}

\* the invocation came to a launch
Launches == hOut # <<>> /\ hOut.exit = "continue" /\ hOut.action \in {"run", "shell"}

\* C15 as claimed: the launch holds the privileged-mode flags and the mount
\* of /var/run/docker.sock exactly when privileged is true.
C15_PrivilegedGatedSolely ==
    Launches =>
       /\ Contains(hOut.launch.options, PrivilegedFlags) <=> hOut.config.privileged
       /\ Contains(hOut.launch.options, SockMount) <=> hOut.config.privileged

\* C15 amended: in run and shell, the launch holds the privileged-mode flags
\* exactly when privileged is true, and the mount
\* /var/run/docker.sock:/var/run/docker.sock exactly when privileged is true
\* and the host has /var/run/docker.sock; it holds neither when privileged
\* is false.
C15_PrivilegedGated ==
    Launches =>
       /\ Contains(hOut.launch.options, PrivilegedFlags) <=> hOut.config.privileged
       /\ Contains(hOut.launch.options, SockMount) <=>
             hOut.config.privileged /\ hIn.sockExists

\* C15 witness: a privileged shell launch on a host with the socket, the
\* flags and the mount in it
C15_Witness ==
    /\ Launches /\ hOut.action = "shell"
    /\ hOut.config.privileged /\ hIn.sockExists
    /\ Contains(hOut.launch.options, PrivilegedFlags \o SockMount)

\* both files decode, so that loadConfig returns a configuration
Resolves == hIn.project.state = "ok" /\ hIn.global.state # "malformed"

\* the command the claim describes for the arguments A: the agent, its
\* configured flags, then A
ClaimedCommand(A) ==
    <<hOut.config.agent>>
    \o (IF hOut.config.agent = Claude
        THEN ClaudeFlags(hIn.global.claudeFlags) ELSE <<>>)
    \o A

\* C16 as claimed: whatever arguments A follow the program name, unless the
\* first of them names another action, the run action launches the agent
\* with its flags and then exactly A.
C16_ArgsPassedVerbatim ==
    ( /\ hOut # <<>> /\ Resolves
      /\ Len(hIn.args) > 0 =>
            hIn.args[1] \notin HelpWords \cup VersionWords
                              \cup {<<"init">>, <<"clean">>, <<"shell">>} )
    => /\ hOut.action = "run"
       /\ hOut.launch.command = ClaimedCommand(hIn.args)

\* C16 amended: for arguments A none of which is help, -h, --help, version,
\* -v or --version and the first of which is not init, clean or shell, the
\* run action launches the resolved agent, then claude_flags if the agent
\* is "claude" (no flags for another agent), then exactly A, in order.
C16_ArgsPassedUnlessIntercepted ==
    ( /\ hOut # <<>> /\ Resolves
      /\ \A i \in 1..Len(hIn.args) :
            hIn.args[i] \notin HelpWords \cup VersionWords
      /\ Len(hIn.args) > 0 =>
            hIn.args[1] \notin {<<"init">>, <<"clean">>, <<"shell">>} )
    => /\ hOut.action = "run"
       /\ hOut.launch.command = ClaimedCommand(hIn.args)

\* C16 witness: a run of claude with configured flags and two arguments
C16_Witness ==
    /\ Launches /\ hOut.action = "run"
    /\ hOut.config.agent = Claude
    /\ hIn.global.claudeFlags # <<>>
    /\ Len(hIn.args) = 2
    /\ hOut.launch.command = ClaimedCommand(hIn.args)

\* the entries that have both of their fields
HasBothPaths(vol) == vol.source # <<>> /\ vol.target # <<>>
HasBothPorts(port) == port.host # 0 /\ port.container # 0

\* the bind mount and the port mapping of one entry
BindMount(vol) ==
    << <<"-v">>,
       (IF Len(vol.source) > 0 /\ Head(vol.source) = "~/"
        THEN Home \o <<Slash>> \o Tail(vol.source)
        ELSE vol.source)
       \o <<Colon>> \o vol.target \o <<Colon, "Z">> >>

PortMapping(port) ==
    << <<"-p">>, <<ToString(port.host), Colon, ToString(port.container)>> >>

RECURSIVE BindMounts(_)
BindMounts(volumes) ==
    IF volumes = <<>> THEN <<>>
    ELSE BindMount(Head(volumes)) \o BindMounts(Tail(volumes))

RECURSIVE PortMappings(_)
PortMappings(ports) ==
    IF ports = <<>> THEN <<>>
    ELSE PortMapping(Head(ports)) \o PortMappings(Tail(ports))

\* how many of the words are w
CountWord(words, w) == Cardinality({i \in DOMAIN words : words[i] = w})

\* no path of the home directory is mounted unless it is there
CredentialsGated ==
    \A i \in 1..Len(CredentialPaths) :
       Contains(hOut.launch.options, CredentialMount(CredentialPaths[i]))
          <=> CredentialPaths[i].name \in hIn.present

\* C26 as claimed: the launch holds one bind mount per declared volume and
\* one port mapping per declared port pair, in the order of declaration,
\* and a path of the home directory that is not there gives no mount and
\* no error.
C26_OneEntryPerDeclared ==
    Launches =>
       /\ Contains(hOut.launch.options,
                   BindMounts(hIn.project.volumes) \o PortMappings(hIn.project.ports))
       /\ CountWord(hOut.launch.options, <<"-p">>) = Len(hIn.project.ports)
       /\ CredentialsGated

\* C26 amended: the launch holds one bind mount per declared volume that
\* has a source and a target, and one port mapping per declared port pair
\* with a host and a container port other than 0, in the order of
\* declaration, and none for the other entries; a path of the home
\* directory is mounted exactly when it is there; and there are no other
\* -v and -p options than these, the project directory and the socket of
\* the privileged mode.
C26_OneEntryPerCompleteEntry ==
    Launches =>
       /\ Contains(hOut.launch.options,
                   BindMounts(SelectSeq(hIn.project.volumes, HasBothPaths))
                   \o PortMappings(SelectSeq(hIn.project.ports, HasBothPorts)))
       /\ CountWord(hOut.launch.options, <<"-p">>) =
             Len(SelectSeq(hIn.project.ports, HasBothPorts))
       /\ CountWord(hOut.launch.options, <<"-v">>) =
             1 + Cardinality(hIn.present)
             + (IF hOut.config.privileged /\ hIn.sockExists THEN 1 ELSE 0)
             + Len(SelectSeq(hIn.project.volumes, HasBothPaths))
       /\ CredentialsGated

\* C26 witness: a launch with two volumes that are mounted, one of them
\* under the home directory, one that is skipped, two ports that are
\* mapped, and no path of the home directory there
C26_Witness ==
    /\ Launches
    /\ Len(hIn.project.volumes) = 3 /\ Len(hIn.project.ports) = 3
    /\ hIn.present = {}
    /\ Contains(hOut.launch.options,
                << <<"-v">>, <<"/home/u", Slash, "data", Colon, "/data", Colon, "Z">>,
                   <<"-v">>, <<"/srv", Colon, "/srv", Colon, "Z">>,
                   <<"-p">>, <<"2", Colon, "1">>,
                   <<"-p">>, <<"1", Colon, "2">> >>)

-----------------------------------------------------------------------------
(* The base image's build context, as a function of the environment and of *)
(* the global file's base_packages.                                        *)

\* the keys of envTemplates
EnvironmentNames ==
    { <<"python">>, <<"rust">>, <<"node">>, <<"go">>, <<"ruby">>,
      <<"java">>, <<"cpp">>, <<"php">>, <<"dotnet">> }

\* the packages generateBaseDockerfile always installs
FixedBasePackages ==
    << <<"curl">>, <<"wget">>, <<"sudo">>, <<"ca-certificates">>,
       <<"gnupg">>, <<"lsb-release">>, <<"git">>, <<"vim">>, <<"nano">>,
       <<"htop">>, <<"less">>, <<"man-db">> >>

\* the RUN instructions of the switch on env: the tool that installs and
\* what it is asked to install
EnvironmentRuns(env) ==
    CASE env = <<"rust">> ->
           << [tool |-> "apt-get",
               items |-> << <<"pkg-config">>, <<"libssl-dev">>,
                            <<"build-essential">> >>],
              [tool |-> "rustup",
               items |-> << <<"rustfmt">>, <<"clippy">>, <<"rust-analyzer">>,
                            <<"rust-src">> >>],
              [tool |-> "cargo",
               items |-> << <<"cargo-watch">>, <<"cargo-edit">>,
                            <<"cargo-expand">> >>] >>
      [] env = <<"python">> ->
           << [tool |-> "apt-get",
               items |-> << <<"python3">>, <<"python3-dev">>,
                            <<"python3-pip">>, <<"python3-venv">>, <<"pipx">>,
                            <<"poetry">>, <<"pyenv">>,
                            <<"python3-setuptools">> >>] >>
      [] env = <<"node">> ->
           << [tool |-> "apt-get",
               items |-> << <<"nodejs">>, <<"npm">>, <<"yarn">> >>],
              [tool |-> "npm", items |-> << <<"n">> >>] >>
      [] env = <<"go">> ->
           << [tool |-> "apt-get",
               items |-> << <<"golang">>, <<"gopls">> >>] >>
      [] OTHER -> <<>>

\* generateBaseDockerfile: the FROM line and the RUN instructions
generateBaseDockerfile(env, basePackages) ==
    [from |-> <<"ubuntu:latest">>,
     runs |-> << [tool |-> "apt-get",
                  items |-> FixedBasePackages
                            \o (IF Len(basePackages) > 0
                                THEN basePackages ELSE <<>>)] >>
              \o EnvironmentRuns(env)]

\* everything a build context installs
Installed(dockerfile) ==
    UNION { Range(dockerfile.runs[i].items) : i \in 1..Len(dockerfile.runs) }

\* the base_packages lists of the global files that are tried
BasePackageLists ==
    SeqsUpTo({ <<"git">>, <<"jq">>, <<"ripgrep">> }, MaxBasePackages)

BaseInputs ==
    [env : EnvironmentNames \cup {<<"base">>}, basePackages : BasePackageLists]

InitBase ==
    /\ procs = {}
    /\ commands = {}
    /\ cfgFiles = [d \in Dirs |-> NoCfgFile]
    /\ globalFile = NoFile
    /\ stateFiles = [n \in ProjectNames |-> NoFile]
    /\ images = {}
    /\ containers = {}
    /\ inst = [p \in Procs |-> Idle]
    /\ lastRun = [d \in Dirs |-> NoRun]
    /\ edits = 0
    /\ externals = 0
    /\ hIn \in BaseInputs
    /\ hOut = <<>>

\* the build context of the base image is generated
GenerateBase ==
    /\ hOut = <<>>
    /\ hOut' = generateBaseDockerfile(hIn.env, hIn.basePackages)
    /\ UNCHANGED <<cacheVars, hIn>>

NextBase == GenerateBase

SpecBase == InitBase /\ [][NextBase]_vars

\* C21 as claimed: the base build context of every environment of
\* envTemplates installs the packages envTemplates lists for it, and the
\* base_packages of the global file.
C21_BaseContextHasTemplate ==
    hOut # <<>> /\ hIn.env \in EnvironmentNames =>
       /\ Range(envTemplates(hIn.env)) \subseteq Installed(hOut)
       /\ Range(hIn.basePackages) \subseteq Installed(hOut)

====
